---- MODULE Spec2Model ----
(***************************************************************************)
(* Word-Deck: a browser dictionary front end.  Two entry points exist:     *)
(* index.tsx (structured JSON reply) and an older variant (free text with  *)
(* search grounding).  Both share the submit handler's control flow, the   *)
(* DOM helpers and the recency history kept in localStorage.               *)
(*                                                                         *)
(* Strings are modelled as sequences of one-character strings so that      *)
(* trim() and toLowerCase() are computed, not assumed.                     *)
(*                                                                         *)
(* A handler is one atomic action up to its await; the code after the      *)
(* await is a second action, taken once per pending call when the service  *)
(* resolves or rejects.  User events are taken after DOMContentLoaded.     *)
(* The word-of-the-day text (setWordOfTheDay, the new-word button) is not  *)
(* part of the state: a click on the daily word is a submit of that word   *)
(* and is covered by SubmitForm.                                           *)
(***************************************************************************)
EXTENDS Integers, Sequences, FiniteSets, TLC

VARIABLES
    mode,            \* which entry point is loaded: "structured" | "grounded"
    ai,              \* TRUE iff `new GoogleGenAI(...)` did not throw
    started,         \* TRUE once the DOMContentLoaded handler has run
    uncaught,        \* TRUE once an exception escaped an event handler
    storage,         \* localStorage value under HISTORY_KEY (serialized form)
    historyHidden,   \* historySection has class 'hidden'
    historyList,     \* the words of the buttons inside historyList
    loaderHidden,    \* loader has class 'hidden'
    errorHidden,     \* errorContainer has class 'hidden'
    errorText,       \* errorContainer.textContent
    results,         \* resultsContainer.innerHTML (rendered entry or empty)
    wotdHidden,      \* wordOfTheDaySection has class 'hidden'
    inflight,        \* pending generateContent() calls: set of [id, word]
    netCalls,        \* number of generateContent() calls issued so far
    last,            \* the handler that ran last and the lookup it belongs to
    recWord,         \* argument of the latest completed updateHistory call
    recPrev,         \* storage as it was before that call
    recRepeat,       \* TRUE iff the call before it had the same argument
    recLog,          \* arguments of the first MaxLog updateHistory calls
    submitted,       \* searchInput.value of each lookup issued, by lookup id
    speech,          \* TRUE iff 'speechSynthesis' in window
    spoken           \* the latest utterance passed to speechSynthesis.speak

vars == <<mode, ai, started, uncaught, storage, historyHidden, historyList,
          loaderHidden, errorHidden, errorText, results, wotdHidden,
          inflight, netCalls, last, recWord, recPrev, recRepeat, recLog,
          submitted, speech, spoken>>

uiVars == <<loaderHidden, errorHidden, errorText, results, wotdHidden>>
storeVars == <<storage, historyHidden, historyList>>
recVars == <<recWord, recPrev, recRepeat, recLog>>
audioVars == <<speech, spoken>>

----------------------------------------------------------------------------
(* Bounds of the model *)

MaxCalls == 2       \* lookups issued in one behaviour
MaxInflight == 2    \* lookups awaiting their reply at once
MaxLog == 3         \* updateHistory arguments remembered in recLog

(* Program constants *)

MaxHistory == 5

----------------------------------------------------------------------------
(* Strings *)

Run == <<"R", "u", "n">>
run == <<"r", "u", "n">>
RUN == <<"R", "U", "N">>

\* String.prototype.toLowerCase, one character
LowerChar(c) ==
    CASE c = "A" -> "a"
      [] c = "B" -> "b"
      [] c = "N" -> "n"
      [] c = "R" -> "r"
      [] c = "U" -> "u"
      [] OTHER -> c

toLowerCase(w) == [i \in 1..Len(w) |-> LowerChar(w[i])]

IsSpace(c) == c = " "

RECURSIVE trimStart(_)
trimStart(v) ==
    IF v # <<>> /\ IsSpace(Head(v)) THEN trimStart(Tail(v)) ELSE v

RECURSIVE trimEnd(_)
trimEnd(v) ==
    IF v # <<>> /\ IsSpace(v[Len(v)])
    THEN trimEnd(SubSeq(v, 1, Len(v) - 1))
    ELSE v

\* String.prototype.trim
trim(v) == trimEnd(trimStart(v))

\* values typed into searchInput by the user
Inputs ==
    { <<>>, <<" ", " ">>, Run, <<" ", "r", "u", "n", " ">>, <<"a">> }

\* values handed to the recency store when it is exercised on its own
StoreInputs ==
    { Run, run, RUN, <<" ", "a">>, <<"A">>, <<"b", " ">>, <<"c">>, <<"d">>,
      <<"e">> }

NoWord == <<>>

----------------------------------------------------------------------------
(* localStorage and JSON *)

Absent == [kind |-> "absent", items |-> <<>>]           \* getItem() = null
Garbage == [kind |-> "garbage", items |-> <<>>]         \* not JSON at all
JsonNull == [kind |-> "null", items |-> <<>>]           \* the text 'null'
JsonObject == [kind |-> "object", items |-> <<>>]       \* the text '{}'

\* JSON.stringify of an array of strings
JSONstringify(history) == [kind |-> "array", items |-> history]

\* localStorage.getItem(HISTORY_KEY) || '[]'
getItemOrEmpty(s) == IF s.kind = "absent" THEN JSONstringify(<<>>) ELSE s

\* JSON.parse(...) throws a SyntaxError on text that is not JSON
parseThrows(s) == getItemOrEmpty(s).kind = "garbage"

\* the parsed value is an array (has filter/unshift/forEach/length)
parsesToArray(s) == getItemOrEmpty(s).kind = "array"

\* JSON.parse(localStorage.getItem(HISTORY_KEY) || '[]') as string[]
loadHistory(s) == getItemOrEmpty(s).items

\* history.filter(item => item !== normalizedWord)
RECURSIVE filterOut(_, _)
filterOut(history, w) ==
    IF history = <<>> THEN <<>>
    ELSE IF Head(history) # w
         THEN <<Head(history)>> \o filterOut(Tail(history), w)
         ELSE filterOut(Tail(history), w)

\* history.slice(0, n)
sliceFront(history, n) ==
    SubSeq(history, 1, IF Len(history) < n THEN Len(history) ELSE n)

----------------------------------------------------------------------------
(* The recency store *)

\* updateHistoryFn without the truncation to five entries
updateHistoryFn_noSlice(history, word) ==
    LET normalizedWord == toLowerCase(word)
    IN  <<normalizedWord>> \o filterOut(history, normalizedWord)

\* updateHistoryFn filtering by the word as typed, not the normalized word
updateHistoryFn_filterRaw(history, word) ==
    LET unshifted == <<toLowerCase(word)>> \o filterOut(history, word)
    IN  IF Len(unshifted) > MaxHistory
        THEN sliceFront(unshifted, MaxHistory)
        ELSE unshifted

\* updateHistoryFn with push in place of unshift
updateHistoryFn_push(history, word) ==
    LET normalizedWord == toLowerCase(word)
        pushed == filterOut(history, normalizedWord) \o <<normalizedWord>>
    IN  IF Len(pushed) > MaxHistory
        THEN sliceFront(pushed, MaxHistory)
        ELSE pushed

\* updateHistoryFn without the filter that removes the earlier occurrence
updateHistoryFn_noFilter(history, word) ==
    LET unshifted == <<toLowerCase(word)>> \o history
    IN  IF Len(unshifted) > MaxHistory
        THEN sliceFront(unshifted, MaxHistory)
        ELSE unshifted

\* updateHistoryFn writing the new word alone, dropping the array it read
updateHistoryFn_overwrite(history, word) == <<toLowerCase(word)>>

\* the new array computed by updateHistory(word) from the array it read
updateHistoryFn(history, word) ==
    LET normalizedWord == toLowerCase(word)
        filtered == filterOut(history, normalizedWord)
        unshifted == <<normalizedWord>> \o filtered
    IN  IF Len(unshifted) > MaxHistory
        THEN sliceFront(unshifted, MaxHistory)
        ELSE unshifted

\* updateHistory throws before it writes: SyntaxError from JSON.parse, or
\* TypeError from calling filter on a value that is not an array
updateHistoryThrows(s) == parseThrows(s) \/ ~parsesToArray(s)

\* renderHistory() on a stored value that parses to an array
renderHistory(s) ==
    IF Len(loadHistory(s)) = 0
    THEN /\ historyHidden' = TRUE
         /\ UNCHANGED historyList
    ELSE /\ historyHidden' = FALSE
         /\ historyList' = loadHistory(s)

\* n: calls so far (MaxLog + 1: more than MaxLog); words: their arguments;
\* from: the stored value the first call found
NoLog == [n |-> 0, words |-> <<>>, from |-> Absent]

\* bookkeeping of the calls of updateHistory that ran to completion
noteRecord(word) ==
    /\ recWord' = word
    /\ recPrev' = storage
    /\ recRepeat' = (recWord = word)
    /\ recLog' = IF recLog.n < MaxLog
                 THEN [n |-> recLog.n + 1,
                       words |-> Append(recLog.words, word),
                       from |-> IF recLog.n = 0 THEN storage ELSE recLog.from]
                 ELSE [n |-> MaxLog + 1, words |-> <<>>, from |-> Absent]

\* updateHistory(word), when it does not throw
updateHistory(word) ==
    LET history == updateHistoryFn(loadHistory(storage), word)
    IN  /\ storage' = JSONstringify(history)
        /\ renderHistory(JSONstringify(history))
        /\ noteRecord(word)

----------------------------------------------------------------------------
(* DOM helpers *)

MsgInit == "Could not initialize the Gemini API. Please check your API key."
MsgEmpty == "Please enter a word."
MsgNotInit == "Gemini API is not initialized."
MsgFetch(m) ==
    IF m = "structured"
    THEN "An error occurred while fetching the definition. The word might be too obscure or there was a network issue. Please try again."
    ELSE "An error occurred while fetching the definition. Please try again."

Undefined == <<"#undefined">>

\* resultsContainer.innerHTML = ''
NoResults ==
    [html |-> "empty", word |-> <<>>, by |-> 0, definition |-> <<>>,
     present |-> {}, sources |-> <<>>, chunks |-> <<>>,
     primaryExample |-> <<>>, moreExamples |-> <<>>,
     synonyms |-> <<>>, antonyms |-> <<>>,
     given |-> [examples |-> <<>>, synonyms |-> <<>>, antonyms |-> <<>>],
     detailsHidden |-> TRUE, toggleText |-> ""]

\* showError(message); only index.tsx has the word-of-the-day section
showError(message) ==
    /\ results' = NoResults
    /\ errorText' = message
    /\ errorHidden' = FALSE
    /\ wotdHidden' = FALSE

\* nothing was spoken yet; `by` is the lookup whose handler made the utterance
NoUtterance == [text |-> <<>>, by |-> 0]

\* op: "none" | "startup" | "submit" | "result" | "error" | "audio" | "toggle"; id: the lookup the
\* handler issued or completed (0: none); why: what made a lookup fail;
\* value: the text in searchInput when the submit handler ran
NoEvent == [op |-> "none", id |-> 0, why |-> "", value |-> <<>>]

----------------------------------------------------------------------------
(* Replies of the language service *)

\* a reply whose JSON text carries every field of responseSchema
FullObject ==
    [compliment |-> <<"c">>, pronunciation |-> <<"p">>,
     partOfSpeech |-> <<"n">>, definition |-> <<"d">>,
     synonyms |-> << <<"s">> >>, antonyms |-> <<>>,
     etymology |-> <<"y">>,
     exampleSentences |-> << <<"x">>, <<"z">> >>]

\* the same reply without its definition field
NoDefinitionObject ==
    [compliment |-> <<"c">>, pronunciation |-> <<"p">>,
     partOfSpeech |-> <<"n">>,
     synonyms |-> << <<"s">> >>, antonyms |-> <<>>,
     etymology |-> <<"y">>,
     exampleSentences |-> << <<"x">>, <<"z">> >>]

\* a reply with three example sentences, antonyms and no synonyms
ManyExamplesObject ==
    [compliment |-> <<"c">>, pronunciation |-> <<"p">>,
     partOfSpeech |-> <<"n">>, definition |-> <<"d">>,
     synonyms |-> <<>>, antonyms |-> << <<"t">>, <<"v">> >>,
     etymology |-> <<"y">>,
     exampleSentences |-> << <<"x">>, <<"z">>, <<"w">> >>]

\* a reply with a single example sentence
OneExampleObject ==
    [compliment |-> <<"c">>, pronunciation |-> <<"p">>,
     partOfSpeech |-> <<"n">>, definition |-> <<"d">>,
     synonyms |-> << <<"s">> >>, antonyms |-> << <<"t">> >>,
     etymology |-> <<"y">>,
     exampleSentences |-> << <<"x">> >>]

\* a reply whose three arrays are empty
NoExampleObject ==
    [compliment |-> <<"c">>, pronunciation |-> <<"p">>,
     partOfSpeech |-> <<"n">>, definition |-> <<"d">>,
     synonyms |-> <<>>, antonyms |-> <<>>,
     etymology |-> <<"y">>,
     exampleSentences |-> <<>>]

\* response.text in structured mode
\*   json "undefined": response.text is undefined (no text part)
\*   json "garbage":   text that is not JSON
\*   json "null":      the JSON text 'null'
\*   json "object":    a JSON object, its fields in `value`
StructuredReplies ==
    { [json |-> "undefined", value |-> <<>>, chunks |-> <<>>],
      [json |-> "garbage", value |-> <<>>, chunks |-> <<>>],
      [json |-> "null", value |-> <<>>, chunks |-> <<>>],
      [json |-> "object", value |-> FullObject, chunks |-> <<>>],
      [json |-> "object", value |-> NoDefinitionObject, chunks |-> <<>>],
      [json |-> "object", value |-> ManyExamplesObject, chunks |-> <<>>],
      [json |-> "object", value |-> OneExampleObject, chunks |-> <<>>],
      [json |-> "object", value |-> NoExampleObject, chunks |-> <<>>] }

\* one entry of groundingMetadata.groundingChunks: with or without `web`
WebChunk(uri) == [web |-> TRUE, uri |-> uri]
OtherChunk == [web |-> FALSE, uri |-> ""]

\* groundingChunks of a reply (an absent list and an empty one take the
\* same branch of `groundingChunks && groundingChunks.length > 0`)
ChunkLists ==
    { <<>>,
      <<WebChunk("u1"), OtherChunk, WebChunk("u2"), WebChunk("u1")>>,
      <<WebChunk("u2"), WebChunk("u2"), WebChunk("u1")>> }

\* the reply in grounded-text mode: response.text undefined, or the text
\* itself together with its grounding chunks
GroundedReplies ==
    { [json |-> "undefined", value |-> <<>>, chunks |-> <<>>] }
    \cup { [json |-> "text", value |-> <<"d", "\n", "x">>, chunks |-> c] :
             c \in ChunkLists }

Replies(m) == IF m = "structured" THEN StructuredReplies ELSE GroundedReplies

\* JSON.parse(response.text) throws a SyntaxError
replyParseThrows(reply) == reply.json \in {"undefined", "garbage"}

\* data.<field> of the parsed object; undefined when the field is missing
field(data, name) ==
    IF name \in DOMAIN data THEN data[name] ELSE Undefined

\* `${value}` inside a template literal
interpolate(value) == IF value = Undefined THEN <<"undefined">> ELSE value

\* response.text.replace(/\n/g, '<br>')
replaceNewlines(text) ==
    [i \in 1..Len(text) |-> IF text[i] = "\n" THEN "<br>" ELSE text[i]]

\* the statements between updateHistory(word) and the end of the try block
\* throw: a SyntaxError from JSON.parse, a TypeError from reading a property
\* of null (index.tsx), a TypeError from undefined.replace (the variant)
renderThrows(m, reply) ==
    IF m = "structured"
    THEN replyParseThrows(reply) \/ reply.json = "null"
    ELSE reply.json = "undefined"

\* the for loop over groundingChunks with its seenUris set
RECURSIVE collectSources(_, _)
collectSources(chunks, seenUris) ==
    IF chunks = <<>> THEN <<>>
    ELSE LET chunk == Head(chunks)
         IN  IF chunk.web /\ chunk.uri \notin seenUris
             THEN <<chunk.uri>>
                  \o collectSources(Tail(chunks), seenUris \cup {chunk.uri})
             ELSE collectSources(Tail(chunks), seenUris)

\* sourcesList without the seenUris test: one item per web chunk
sourcesList_noSeen(chunks) ==
    LET RECURSIVE all(_)
        all(cs) == IF cs = <<>> THEN <<>>
                   ELSE IF Head(cs).web
                        THEN <<Head(cs).uri>> \o all(Tail(cs))
                        ELSE all(Tail(cs))
    IN  all(chunks)

\* the <li> items of sourcesHtml, by their href
sourcesList(chunks) == collectSources(chunks, {})

\* data.<name> as an array; a missing property is falsy in the template's
\* `data.<name> && data.<name>.length > 0` and renders nothing
arrayField(data, name) == IF name \in DOMAIN data THEN data[name] ELSE <<>>

\* the primary block: exampleSentences[0] when there is one
primaryExample(data) ==
    LET ex == arrayField(data, "exampleSentences")
    IN  IF Len(ex) > 0 THEN <<ex[1]>> ELSE <<>>

\* moreExamples with slice(0) in place of slice(1)
moreExamples_all(data) ==
    LET ex == arrayField(data, "exampleSentences")
    IN  IF Len(ex) > 1 THEN ex ELSE <<>>

\* the 'More Examples' list: exampleSentences.slice(1) when length > 1
moreExamples(data) ==
    LET ex == arrayField(data, "exampleSentences")
    IN  IF Len(ex) > 1 THEN SubSeq(ex, 2, Len(ex)) ELSE <<>>

\* the spans of the Synonyms / Antonyms section; none: no section
chips(data, name) ==
    LET items == arrayField(data, name)
    IN  IF Len(items) > 0 THEN items ELSE <<>>

\* the parts of the structured panel below the definition, with the arrays
\* the reply carried (`given`), the detail block hidden at first
detailFields(data) ==
    [primaryExample |-> primaryExample(data),
     moreExamples |-> moreExamples(data),
     synonyms |-> chips(data, "synonyms"),
     antonyms |-> chips(data, "antonyms"),
     given |-> [examples |-> arrayField(data, "exampleSentences"),
                synonyms |-> arrayField(data, "synonyms"),
                antonyms |-> arrayField(data, "antonyms")],
     detailsHidden |-> TRUE, toggleText |-> "Show More"]

\* the variant renders no examples, chips or detail block
NoDetailFields ==
    [primaryExample |-> <<>>, moreExamples |-> <<>>,
     synonyms |-> <<>>, antonyms |-> <<>>,
     given |-> [examples |-> <<>>, synonyms |-> <<>>, antonyms |-> <<>>],
     detailsHidden |-> TRUE, toggleText |-> ""]

\* record union: the fields of both records
Merge(a, b) ==
    [k \in (DOMAIN a) \cup (DOMAIN b) |-> IF k \in DOMAIN a THEN a[k] ELSE b[k]]

\* renderEntry with the heading taken from the normalized word
renderEntry_lower(m, req, reply) ==
    IF m = "structured"
    THEN Merge([html |-> "entry", word |-> toLowerCase(req.word),
                by |-> req.id,
                definition |-> interpolate(field(reply.value, "definition")),
                present |-> DOMAIN reply.value,
                sources |-> <<>>, chunks |-> <<>>],
               detailFields(reply.value))
    ELSE Merge([html |-> "entry", word |-> toLowerCase(req.word),
                by |-> req.id,
                definition |-> replaceNewlines(reply.value),
                present |-> {"definition"},
                sources |-> sourcesList(reply.chunks),
                chunks |-> reply.chunks],
               NoDetailFields)

\* resultsContainer.innerHTML = `...` for the lookup `req`
renderEntry(m, req, reply) ==
    IF m = "structured"
    THEN Merge([html |-> "entry", word |-> req.word, by |-> req.id,
                definition |-> interpolate(field(reply.value, "definition")),
                present |-> DOMAIN reply.value,
                sources |-> <<>>, chunks |-> <<>>],
               detailFields(reply.value))
    ELSE Merge([html |-> "entry", word |-> req.word, by |-> req.id,
                definition |-> replaceNewlines(reply.value),
                present |-> {"definition"},
                sources |-> sourcesList(reply.chunks),
                chunks |-> reply.chunks],
               NoDetailFields)

\* what the page shows
loaderShown == ~loaderHidden
errorShown == ~errorHidden
resultShown == results.html = "entry"

----------------------------------------------------------------------------
(* Construction *)

\* the page after the module body ran: the element constants are bound,
\* `ai` is constructed (or the constructor threw and showError ran), the
\* handlers are registered and DOMContentLoaded has not fired yet
Init ==
    /\ mode \in {"structured", "grounded"}
    /\ ai \in BOOLEAN
    /\ started = FALSE
    /\ uncaught = FALSE
    /\ storage \in {Absent, Garbage, JsonNull, JsonObject}
    /\ historyHidden = TRUE
    /\ historyList = <<>>
    /\ loaderHidden = TRUE
    /\ errorHidden = ai
    /\ errorText = IF ai THEN "" ELSE MsgInit
    /\ results = NoResults
    /\ wotdHidden = FALSE
    /\ inflight = {}
    /\ netCalls = 0
    /\ last = NoEvent
    /\ recWord = NoWord
    /\ recPrev = storage
    /\ recRepeat = FALSE
    /\ recLog = NoLog
    /\ submitted = <<>>
    /\ speech \in BOOLEAN
    /\ spoken = NoUtterance

----------------------------------------------------------------------------
(* Event handlers *)

\* document 'DOMContentLoaded': setWordOfTheDay(); renderHistory().
\* renderHistory has no try/catch: a stored value that does not parse, or
\* parses to something without length/forEach, makes the handler throw.
\* The text '{}' parses, has no length (undefined !== 0), so the section is
\* shown and the list cleared before forEach throws.
DOMContentLoaded ==
    /\ ~started
    /\ started' = TRUE
    /\ IF parsesToArray(storage)
       THEN /\ renderHistory(storage)
            /\ UNCHANGED uncaught
       ELSE /\ uncaught' = TRUE
            /\ IF storage.kind = "object"
               THEN historyHidden' = FALSE /\ historyList' = <<>>
               ELSE UNCHANGED <<historyHidden, historyList>>
    /\ last' = [op |-> "startup", id |-> 0, why |-> "", value |-> <<>>]
    /\ UNCHANGED <<mode, ai, storage, uiVars, inflight, netCalls, recVars,
                   submitted, audioVars>>

\* Submit without the `if (!ai)` guard
Submit_noAiGuard(value) ==
    LET word == trim(value)
        id == netCalls + 1
    IN  /\ started
        /\ IF word = <<>>
           THEN /\ showError(MsgEmpty)
                /\ last' = [op |-> "submit", id |-> 0, why |-> "",
                            value |-> value]
                /\ UNCHANGED <<loaderHidden, inflight, netCalls, submitted>>
           ELSE /\ netCalls < MaxCalls
                /\ Cardinality(inflight) < MaxInflight
                /\ wotdHidden' = (IF mode = "structured" THEN TRUE
                                  ELSE wotdHidden)
                /\ loaderHidden' = FALSE
                /\ results' = NoResults
                /\ errorHidden' = TRUE
                /\ UNCHANGED errorText
                /\ netCalls' = id
                /\ submitted' = Append(submitted, value)
                /\ inflight' = inflight \cup {[id |-> id, word |-> word]}
                /\ last' = [op |-> "submit", id |-> id, why |-> "",
                            value |-> value]
        /\ UNCHANGED <<mode, ai, started, uncaught, storeVars, recVars,
                       audioVars>>

\* Submit testing the value as typed: no trim before the emptiness check
Submit_noTrim(value) ==
    LET word == value
        id == netCalls + 1
    IN  /\ started
        /\ IF word = <<>>
           THEN /\ showError(MsgEmpty)
                /\ last' = [op |-> "submit", id |-> 0, why |-> "",
                            value |-> value]
                /\ UNCHANGED <<loaderHidden, inflight, netCalls, submitted>>
           ELSE IF ~ai
           THEN /\ showError(MsgNotInit)
                /\ last' = [op |-> "submit", id |-> 0, why |-> "",
                            value |-> value]
                /\ UNCHANGED <<loaderHidden, inflight, netCalls, submitted>>
           ELSE /\ netCalls < MaxCalls
                /\ Cardinality(inflight) < MaxInflight
                /\ wotdHidden' = (IF mode = "structured" THEN TRUE
                                  ELSE wotdHidden)
                /\ loaderHidden' = FALSE
                /\ results' = NoResults
                /\ errorHidden' = TRUE
                /\ UNCHANGED errorText
                /\ netCalls' = id
                /\ submitted' = Append(submitted, value)
                /\ inflight' = inflight \cup {[id |-> id, word |-> word]}
                /\ last' = [op |-> "submit", id |-> id, why |-> "",
                            value |-> value]
        /\ UNCHANGED <<mode, ai, started, uncaught, storeVars, recVars,
                       audioVars>>

\* searchForm 'submit' with searchInput.value = value, up to the await
Submit(value) ==
    LET word == trim(value)
        id == netCalls + 1
    IN  /\ started
        /\ IF word = <<>>
           THEN /\ showError(MsgEmpty)
                /\ last' = [op |-> "submit", id |-> 0, why |-> "",
                            value |-> value]
                /\ UNCHANGED <<loaderHidden, inflight, netCalls, submitted>>
           ELSE IF ~ai
           THEN /\ showError(MsgNotInit)
                /\ last' = [op |-> "submit", id |-> 0, why |-> "",
                            value |-> value]
                /\ UNCHANGED <<loaderHidden, inflight, netCalls, submitted>>
           ELSE /\ netCalls < MaxCalls
                /\ Cardinality(inflight) < MaxInflight
                /\ wotdHidden' = (IF mode = "structured" THEN TRUE
                                  ELSE wotdHidden)
                /\ loaderHidden' = FALSE
                /\ results' = NoResults
                /\ errorHidden' = TRUE
                /\ UNCHANGED errorText
                /\ netCalls' = id
                /\ submitted' = Append(submitted, value)
                /\ inflight' = inflight \cup {[id |-> id, word |-> word]}
                /\ last' = [op |-> "submit", id |-> id, why |-> "",
                            value |-> value]
        /\ UNCHANGED <<mode, ai, started, uncaught, storeVars, recVars,
                       audioVars>>

\* the user types a value and submits the form
SubmitForm == \E value \in Inputs : Submit(value)

\* historyList 'click' on a history button: searchInput.value becomes the
\* button's data-word and the form's submit handler runs
HistoryClick ==
    \E i \in 1..Len(historyList) :
        /\ ~historyHidden
        /\ historyList[i] # <<>>
        /\ Submit(historyList[i])

\* catchFinally without the finally block: the loader is left as it is
catchFinally_noFinally(req, why) ==
    /\ showError(MsgFetch(mode))
    /\ UNCHANGED loaderHidden
    /\ last' = [op |-> "error", id |-> req.id, why |-> why, value |-> <<>>]

\* catchFinally showing the caught error itself instead of the fixed text
catchFinally_rawError(req, why) ==
    /\ showError(why)
    /\ loaderHidden' = TRUE
    /\ last' = [op |-> "error", id |-> req.id, why |-> why, value |-> <<>>]

\* catch (error) { showError(...) } finally { showLoading(false) }
catchFinally(req, why) ==
    /\ showError(MsgFetch(mode))
    /\ loaderHidden' = TRUE
    /\ last' = [op |-> "error", id |-> req.id, why |-> why, value |-> <<>>]

\* the submit handler after its await, when generateContent resolved
\* with `reply`: updateHistory(word), parse and render, finally
Resolve(req, reply) ==
    /\ req \in inflight
    /\ inflight' = inflight \ {req}
    /\ IF updateHistoryThrows(storage)
       THEN /\ catchFinally(req, "storage")
            /\ UNCHANGED <<storeVars, recVars>>
       ELSE /\ updateHistory(req.word)
            /\ IF renderThrows(mode, reply)
               THEN catchFinally(req, "reply")
               ELSE /\ results' = renderEntry(mode, req, reply)
                    /\ loaderHidden' = TRUE
                    /\ last' = [op |-> "result", id |-> req.id, why |-> "",
                                value |-> <<>>]
                    /\ UNCHANGED <<errorHidden, errorText, wotdHidden>>
    /\ UNCHANGED <<mode, ai, started, uncaught, netCalls, submitted,
                   audioVars>>

ServiceResolves ==
    \E req \in inflight : \E reply \in Replies(mode) : Resolve(req, reply)

\* the submit handler after its await, when generateContent rejected
Reject(req) ==
    /\ req \in inflight
    /\ inflight' = inflight \ {req}
    /\ catchFinally(req, "rejected")
    /\ UNCHANGED <<mode, ai, started, uncaught, netCalls, storeVars, recVars,
                   submitted, audioVars>>

ServiceRejects == \E req \in inflight : Reject(req)

\* ToggleDetails that also starts the lookup of the shown word again
ToggleDetails_refetch ==
    /\ mode = "structured"
    /\ resultShown
    /\ netCalls < MaxCalls
    /\ results' = [results EXCEPT
                     !.detailsHidden = ~results.detailsHidden,
                     !.toggleText = IF ~results.detailsHidden
                                    THEN "Show More" ELSE "Show Less"]
    /\ netCalls' = netCalls + 1
    /\ submitted' = Append(submitted, results.word)
    /\ inflight' = inflight
                      \cup {[id |-> netCalls + 1, word |-> results.word]}
    /\ last' = [op |-> "toggle", id |-> results.by, why |-> "", value |-> <<>>]
    /\ UNCHANGED <<mode, ai, started, uncaught, storeVars, loaderHidden,
                   errorHidden, errorText, wotdHidden, recVars, audioVars>>

\* toggle-details-button 'click' (index.tsx only): classList.toggle('hidden')
\* on the detail block, then the button text and chevron follow isHidden
ToggleDetails ==
    /\ mode = "structured"
    /\ resultShown
    /\ results' = [results EXCEPT
                     !.detailsHidden = ~results.detailsHidden,
                     !.toggleText = IF ~results.detailsHidden
                                    THEN "Show More" ELSE "Show Less"]
    /\ last' = [op |-> "toggle", id |-> results.by, why |-> "", value |-> <<>>]
    /\ UNCHANGED <<mode, ai, started, uncaught, storeVars, loaderHidden,
                   errorHidden, errorText, wotdHidden, inflight, netCalls,
                   recVars, submitted, audioVars>>

\* audio-button 'click': the listener is registered only when speech
\* synthesis exists (otherwise the button is hidden); it speaks the `word`
\* of the handler invocation that rendered the panel
AudioClick ==
    /\ resultShown
    /\ speech
    /\ spoken' = [text |-> results.word, by |-> results.by]
    /\ last' = [op |-> "audio", id |-> results.by, why |-> "", value |-> <<>>]
    /\ UNCHANGED <<mode, ai, started, uncaught, storeVars, uiVars, inflight,
                   netCalls, recVars, submitted, speech>>

Next ==
    \/ DOMContentLoaded
    \/ SubmitForm
    \/ HistoryClick
    \/ ServiceResolves
    \/ ServiceRejects
    \/ AudioClick
    \/ ToggleDetails

Spec == Init /\ [][Next]_vars

\* every pending generateContent() call settles: its promise is fulfilled or
\* rejected, and the continuation of the handler that awaits it then runs
SpecLive ==
    Init /\ [][Next]_vars /\ WF_vars(ServiceResolves \/ ServiceRejects)

----------------------------------------------------------------------------
(* The recency store on its own: record and load over every history *)

InitStore ==
    /\ mode = "structured"
    /\ ai = TRUE
    /\ started = FALSE
    /\ uncaught = FALSE
    /\ storage \in {Absent, JSONstringify(<<run>>),
                    JSONstringify(<< <<"a">>, <<"b">>, <<"c">>, <<"d">>,
                                     <<"e">> >>)}
    /\ historyHidden = TRUE
    /\ historyList = <<>>
    /\ loaderHidden = TRUE
    /\ errorHidden = TRUE
    /\ errorText = ""
    /\ results = NoResults
    /\ wotdHidden = FALSE
    /\ inflight = {}
    /\ netCalls = 0
    /\ last = NoEvent
    /\ recWord = NoWord
    /\ recPrev = storage
    /\ recRepeat = FALSE
    /\ recLog = NoLog
    /\ submitted = <<>>
    /\ speech = TRUE
    /\ spoken = NoUtterance

\* record(word): updateHistory called with a trimmed, non-empty word
StoreRecord ==
    \E value \in StoreInputs :
        /\ trim(value) # <<>>
        /\ ~updateHistoryThrows(storage)
        /\ updateHistory(trim(value))
        /\ UNCHANGED <<mode, ai, started, uncaught, uiVars, inflight,
                       netCalls, last, submitted, audioVars>>

NextStore == DOMContentLoaded \/ StoreRecord

SpecStore == InitStore /\ [][NextStore]_vars

----------------------------------------------------------------------------
(* Properties of the recency store (checked under SpecStore) *)

history == loadHistory(storage)
previous == loadHistory(recPrev)
recorded == toLowerCase(recWord)
Range(seq) == {seq[i] : i \in 1..Len(seq)}

\* C3: the persisted history never has more than five entries; recording a
\* sixth distinct word evicts the last (least recently recorded) entry and
\* keeps the others in their order behind the new word.
C3_HistoryBounded ==
    /\ Len(history) <= MaxHistory
    /\ (recWord # NoWord /\ Len(previous) = MaxHistory
        /\ recorded \notin Range(previous))
       => history = <<recorded>> \o SubSeq(previous, 1, MaxHistory - 1)

C3_Witness ==
    /\ recWord # NoWord
    /\ Len(previous) = MaxHistory
    /\ recorded \notin Range(previous)
    /\ Len(history) = MaxHistory

\* C4: the persisted history holds lowercase words only, no two of them
\* equal up to case; starting from an empty history, recording "Run", "run"
\* and "RUN" leaves exactly ["run"].
C4_LowercaseNoDuplicates ==
    /\ \A i \in 1..Len(history) : history[i] = toLowerCase(history[i])
    /\ \A i, j \in 1..Len(history) :
          toLowerCase(history[i]) = toLowerCase(history[j]) => i = j
    /\ (recLog.n = 3 /\ recLog.words = <<Run, run, RUN>>
        /\ recLog.from = Absent)
       => history = <<run>>

C4_Witness ==
    /\ recLog.n = 3
    /\ recLog.words = <<Run, run, RUN>>
    /\ recLog.from = Absent
    /\ Len(history) = 1

\* C5: after record(word), reading the history back (the stored array and
\* the list renderHistory drew from it) gives word.toLowerCase() first.
C5_RecordedWordFirst ==
    recWord # NoWord =>
        /\ history # <<>>
        /\ history[1] = recorded
        /\ historyList # <<>>
        /\ historyList[1] = recorded
        /\ ~historyHidden

C5_Witness ==
    /\ recWord # NoWord
    /\ recWord # recorded
    /\ previous # <<>>
    /\ previous[1] # recorded
    /\ history[1] = recorded

\* C6: recording the same word twice in a row leaves the history exactly
\* as the first of the two calls left it.
C6_RecordIdempotent ==
    recRepeat => /\ storage = recPrev
                 /\ history[1] = recorded

C6_Witness ==
    /\ recRepeat
    /\ Len(history) >= 2
    /\ storage = recPrev

----------------------------------------------------------------------------
(* Properties of the submit handler and the UI (checked under Spec) *)

\* the submit handler ran last and found nothing but whitespace
emptySubmitted == last.op = "submit" /\ trim(last.value) = <<>>

\* C1: once every lookup has completed, what is rendered (result panel or
\* error banner) is the outcome of the lookup submitted last, never that of
\* an older lookup whose reply arrived late.
C1_StaleNeverOverwrites ==
    (inflight = {} /\ last.op \in {"result", "error"}) => last.id = netCalls

\* C2: a submit that ends in the Error state leaves the persisted history
\* as it was; the history changes only in a lookup that ends in Result.
C2_FailedLookupKeepsHistory ==
    [][(last'.op = "error" \/ (last'.op = "submit" /\ last'.id = 0))
         => storage' = storage]_vars

\* C7: a submit of an empty or whitespace-only value, in any UI state,
\* issues no network call, shows the error banner with the fixed validation
\* message over an empty result panel, does not show the loader and leaves
\* the history alone.
C7_EmptySubmit ==
    [][(last'.op = "submit" /\ trim(last'.value) = <<>>)
         => /\ netCalls' = netCalls
            /\ inflight' = inflight
            /\ errorHidden' = FALSE
            /\ errorText' = MsgEmpty
            /\ results' = NoResults
            /\ loaderHidden' = loaderHidden
            /\ storeVars' = storeVars]_vars

C7_Witness ==
    /\ emptySubmitted
    /\ last.value # <<>>
    /\ inflight # {}
    /\ errorShown
    /\ errorText = MsgEmpty

\* C8: in structured mode the result panel is never rendered from a reply
\* that lacks the definition field.
C8_DefinitionPresent ==
    (mode = "structured" /\ resultShown) => "definition" \in results.present

\* C9: of the loader, the result panel and the error banner at most one is
\* shown at a time.
C9_OneUIState ==
    Cardinality({i \in 1..3 : <<loaderShown, resultShown, errorShown>>[i]})
        <= 1

\* C10: a stored value that is not a serialized array never makes a handler
\* throw and never turns a lookup whose reply is good into an error.
C10_LoadFailsSoft ==
    /\ ~uncaught
    /\ last.why # "storage"

\* C11: (index.tsx) the word-of-the-day section is hidden only while a
\* lookup is in flight or a result is shown, is visible whenever the error
\* banner is shown, and is never visible while a lookup is in flight or a
\* result is shown.
C11_WordOfTheDayVisibility ==
    mode = "structured" =>
        /\ wotdHidden => (inflight # {} \/ resultShown)
        /\ errorShown => ~wotdHidden
        /\ (inflight # {} \/ resultShown) => wotdHidden

\* C12: a lookup that was started leaves Loading once the service settles:
\* the loader gets hidden with the result panel or the error banner shown;
\* the loader is never shown when no lookup is in flight, a resolved lookup
\* that rendered shows its result and a failed one shows the error banner.
C12_LeavesLoading ==
    /\ [](inflight = {} => loaderHidden)
    /\ [](last.op = "result" => (resultShown /\ loaderHidden))
    /\ [](last.op = "error" => (errorShown /\ loaderHidden))
    /\ (loaderShown ~> (loaderHidden /\ (resultShown \/ errorShown)))

C12_Witness ==
    /\ netCalls >= 2
    /\ inflight = {}
    /\ last.op \in {"result", "error"}
    /\ loaderHidden
    /\ (resultShown \/ errorShown)

\* C14: the text of the error banner is one of the fixed messages, chosen
\* by the kind of failure alone: the validation text for an empty query, the
\* not-initialized text for a query without a client, the fetch text for any
\* failed lookup whatever was thrown.
C14_FixedErrorMessages ==
    /\ errorText \in {"", MsgInit, MsgEmpty, MsgNotInit, MsgFetch(mode)}
    /\ last.op = "error" => (errorShown /\ errorText = MsgFetch(mode))
    /\ emptySubmitted => (errorShown /\ errorText = MsgEmpty)
    /\ (last.op = "submit" /\ trim(last.value) # <<>> /\ ~ai)
         => (errorShown /\ errorText = MsgNotInit)

C14_Witness ==
    /\ last.op = "error"
    /\ last.why = "reply"
    /\ errorShown
    /\ errorText = MsgFetch(mode)

\* C19: the loader is shown exactly while at least one lookup is in flight.
C19_LoaderWhileInFlight == loaderShown <=> (inflight # {})

\* C20: when the client could not be constructed it stays unconstructed, no
\* network call is ever issued, the loader is never shown, the history is
\* never written, and every non-empty submit shows the fixed
\* not-initialized message.
C20_NoClientNoLookup ==
    [][~ai =>
         /\ ~ai'
         /\ netCalls' = 0
         /\ inflight' = {}
         /\ loaderHidden'
         /\ storage' = storage
         /\ (last'.op = "submit" /\ trim(last'.value) # <<>>)
              => /\ errorHidden' = FALSE
                 /\ errorText' = MsgNotInit
                 /\ results' = NoResults]_vars

C20_Witness ==
    /\ ~ai
    /\ last.op = "submit"
    /\ trim(last.value) # <<>>
    /\ errorShown
    /\ errorText = MsgNotInit
    /\ netCalls = 0

\* C13: the heading of a rendered entry, and the text spoken for it, is the
\* value typed for the lookup that rendered it, trimmed and in its original
\* case, whatever the service replied and however lookups overlap.
C13_WordIsTheQuery ==
    /\ resultShown =>
          /\ results.by \in 1..Len(submitted)
          /\ results.word = trim(submitted[results.by])
    /\ spoken.by # 0 =>
          /\ spoken.by \in 1..Len(submitted)
          /\ spoken.text = trim(submitted[spoken.by])

C13_Witness ==
    /\ resultShown
    /\ results.by < netCalls
    /\ results.word = Run
    /\ submitted[netCalls] # submitted[results.by]
    /\ spoken.by = results.by
    /\ spoken.text = Run

\* C15: in grounded-text mode the sources of a rendered entry are the URIs
\* of the reply's web chunks, each once, in the order of their first
\* occurrence; chunks without web data give no item and a reply without
\* chunks gives no sources.
FirstWebIndex(chunks, uri) ==
    CHOOSE k \in 1..Len(chunks) :
        /\ chunks[k].web /\ chunks[k].uri = uri
        /\ \A l \in 1..(k - 1) : ~(chunks[l].web /\ chunks[l].uri = uri)

C15_SourcesDeduplicated ==
    (mode = "grounded" /\ resultShown) =>
        LET src == results.sources
            chunks == results.chunks
        IN  /\ \A i, j \in 1..Len(src) : src[i] = src[j] => i = j
            /\ Range(src) =
                 {chunks[k].uri : k \in {l \in 1..Len(chunks) : chunks[l].web}}
            /\ \A i, j \in 1..Len(src) :
                 i < j => FirstWebIndex(chunks, src[i])
                            < FirstWebIndex(chunks, src[j])
            /\ chunks = <<>> => src = <<>>

C15_Witness ==
    /\ mode = "grounded"
    /\ resultShown
    /\ Len(results.chunks) = 4
    /\ results.sources = <<"u1", "u2">>

\* C16: (index.tsx) a lookup that renders its entry renders it with the
\* detail block collapsed; a click on the toggle flips the collapsed flag
\* (and the button text with it), so a second click restores it, and changes
\* nothing else: no network call, no history write, the same loader, banner,
\* word-of-the-day section and entry.
C16_TogglePureUI ==
    [][/\ (mode = "structured" /\ last'.op = "result")
            => (results'.detailsHidden /\ results'.toggleText = "Show More")
       /\ last'.op = "toggle"
            => /\ results' = [results EXCEPT
                     !.detailsHidden = ~results.detailsHidden,
                     !.toggleText = IF results.detailsHidden
                                    THEN "Show Less" ELSE "Show More"]
               /\ netCalls' = netCalls
               /\ inflight' = inflight
               /\ storeVars' = storeVars
               /\ loaderHidden' = loaderHidden
               /\ errorHidden' = errorHidden
               /\ errorText' = errorText
               /\ wotdHidden' = wotdHidden]_vars

C16_Witness ==
    /\ last.op = "toggle"
    /\ resultShown
    /\ results.detailsHidden
    /\ results.toggleText = "Show More"

\* C17: (index.tsx) the primary block of a rendered entry shows the first
\* example sentence of the reply and nothing when there is none; the detail
\* block lists the remaining sentences in their order; the Synonyms and the
\* Antonyms sections show the reply's items and are absent when the array is
\* empty, and the entry is rendered all the same.
C17_ExamplesSplit ==
    (mode = "structured" /\ resultShown) =>
        LET ex == results.given.examples
        IN  /\ results.primaryExample =
                 (IF ex = <<>> THEN <<>> ELSE <<Head(ex)>>)
            /\ results.primaryExample \o results.moreExamples = ex
            /\ results.synonyms = results.given.synonyms
            /\ results.antonyms = results.given.antonyms

C17_Witness ==
    /\ mode = "structured"
    /\ resultShown
    /\ Len(results.primaryExample) = 1
    /\ Len(results.moreExamples) = 2
    /\ results.synonyms = <<>>
    /\ Len(results.antonyms) = 2

\* C18: when every lookup issued has resolved, in whatever order and
\* however they overlapped, no write of the history is lost: the history
\* holds the lowercased word of each lookup once, most recently completed
\* first, the word of the lookup that completed last at index 0.
lookupWord(i) == toLowerCase(trim(submitted[i]))

LastIndex(words, w) ==
    CHOOSE k \in 1..Len(words) :
        /\ toLowerCase(words[k]) = w
        /\ \A l \in (k + 1)..Len(words) : toLowerCase(words[l]) # w

Count(words, w) == Cardinality({k \in 1..Len(words) : words[k] = w})

C18_NoLostUpdate ==
    (/\ inflight = {}
     /\ netCalls >= 1
     /\ netCalls <= MaxHistory
     /\ recLog.n = netCalls
     /\ recLog.n <= MaxLog) =>
        /\ \A i \in 1..netCalls :
              Count(recLog.words, trim(submitted[i]))
                = Count([k \in 1..netCalls |-> trim(submitted[k])],
                        trim(submitted[i]))
        /\ Range(history) = {lookupWord(i) : i \in 1..netCalls}
        /\ \A a, b \in 1..Len(history) :
              a < b => /\ history[a] # history[b]
                       /\ LastIndex(recLog.words, history[a])
                            > LastIndex(recLog.words, history[b])
        /\ last.op \in {"result", "error"}
              => history[1] = lookupWord(last.id)

C18_Witness ==
    /\ inflight = {}
    /\ netCalls >= 2
    /\ recLog.n = netCalls
    /\ last.op = "result"
    /\ last.id < netCalls
    /\ Len(history) >= 2
    /\ history[1] = lookupWord(last.id)

====
